---------------------------- MODULE Spec2Model ----------------------------
(***************************************************************************)
(* TinyBase: the extension lifecycle hooks (tinybase/extensions/hooks.py)  *)
(* and the command-line interface (tinybase/cli.py).                       *)
(*                                                                         *)
(* Part I models the two hook registries as list objects on a heap (the    *)
(* module globals are references, clear_hooks rebinds them) and the two    *)
(* runner coroutines step by step, with one step per hook call and one     *)
(* per resumption after an await.                                          *)
(***************************************************************************)
EXTENDS Naturals, Integers, Sequences, FiniteSets, TLC

(***************************************************************************)
(* Bounds of the hook model.                                               *)
(***************************************************************************)
\* on_startup / on_shutdown calls in one behaviour (entries on the heap)
MaxRegs == 3
\* clear_hooks calls in one behaviour
MaxClears == 1

\* The hook callables.  "f" and "g" are plain or async functions; "p" is a
\* callable without a __name__ attribute (a functools.partial object or an
\* instance of a class defining __call__).
Hooks == {"f", "p"}

HasName(h) == h # "p"

\* The two runner coroutines.
Runners == {"startup", "shutdown"}

\* What calling hook() does: return a plain value, return an awaitable,
\* raise an Exception, or raise a BaseException that is no Exception
\* (SystemExit, KeyboardInterrupt, asyncio.CancelledError).
CallOutcomes == {"value", "awaitable", "exception", "base_exception"}

\* What awaiting the result does.
AwaitOutcomes == {"value", "exception", "base_exception"}

VARIABLES
    heap,            \* list objects: id -> sequence of hooks
    startup_hooks,   \* the global _startup_hooks: id of the list it refers to
    shutdown_hooks,  \* the global _shutdown_hooks
    nalloc,          \* list objects allocated so far
    ret,             \* the value returned by the last on_startup/on_shutdown
    pc,              \* per runner: "idle", "iter", "await", "returned", "raised"
    iter,            \* per runner: the list iterator of the for loop
    calls,           \* per runner: the hooks called in the current run, in order
    logged,          \* per runner: the hooks whose error was logged in this run
    inflight,        \* per runner: positions called whose awaitable is pending
    escaped,         \* per runner: the error that left the run ("none" if none)
    registered,      \* history: registrations since the last clear_hooks
    fresh            \* history, per runner: no clear_hooks since the run began

hookVars == <<heap, startup_hooks, shutdown_hooks, nalloc, ret, pc, iter, calls,
              logged, inflight, escaped, registered, fresh>>

\* The state the command-line interface works on (Part II).
VARIABLES
    files,           \* tinybase.toml and functions.py: [exists, text]
    functions_dir,   \* the functions/ directory exists
    db_created,      \* create_db_and_tables has made the tables
    users,           \* the User table, rows in insertion order
    extensions,      \* the Extension table, rows in insertion order
    ext_dirs,        \* names of the extensions with files on disk
    now,             \* the clock utcnow reads
    exit_code,       \* exit status of the last command
    out,             \* what the last command printed, in order
    created,         \* history: the names "functions new" has added
    bound            \* what uvicorn.run was last called with, None before

cliVars == <<files, functions_dir, db_created, users, extensions, ext_dirs, now,
             exit_code, out, created, bound>>

vars == <<hookVars, cliVars>>


ListIds == 0 .. (2 * MaxClears + 1)

RECURSIVE TotalLen(_, _)
TotalLen(h, n) == IF n = 0 THEN 0 ELSE Len(h[n - 1]) + TotalLen(h, n - 1)

\* The list a runner iterates: the global as it is bound when the run begins.
Registry(r) == IF r = "startup" THEN startup_hooks ELSE shutdown_hooks

InitHooks ==
    /\ heap = [i \in ListIds |-> <<>>]
    /\ startup_hooks = 0
    /\ shutdown_hooks = 1
    /\ nalloc = 2
    /\ ret = "none"
    /\ pc = [r \in Runners |-> "idle"]
    /\ iter = [r \in Runners |-> [list |-> Registry(r), idx |-> 0]]
    /\ calls = [r \in Runners |-> <<>>]
    /\ logged = [r \in Runners |-> <<>>]
    /\ inflight = [r \in Runners |-> {}]
    /\ escaped = [r \in Runners |-> "none"]
    /\ registered = [r \in Runners |-> <<>>]
    /\ fresh = [r \in Runners |-> TRUE]

runVars == <<pc, iter, calls, logged, inflight, escaped, fresh>>

\* on_startup with the registry of the other decorator (a copy-paste slip).
on_startup_OtherRegistry(func) ==
    /\ TotalLen(heap, nalloc) < MaxRegs
    /\ heap' = [heap EXCEPT ![shutdown_hooks] = Append(@, func)]
    /\ ret' = func
    /\ registered' = [registered EXCEPT !["startup"] = Append(@, func)]
    /\ UNCHANGED <<startup_hooks, shutdown_hooks, nalloc, runVars>>
    /\ UNCHANGED cliVars

\* _startup_hooks.append(func); return func
on_startup(func) ==
    /\ TotalLen(heap, nalloc) < MaxRegs
    /\ heap' = [heap EXCEPT ![startup_hooks] = Append(@, func)]
    /\ ret' = func
    /\ registered' = [registered EXCEPT !["startup"] = Append(@, func)]
    /\ UNCHANGED <<startup_hooks, shutdown_hooks, nalloc, runVars>>
    /\ UNCHANGED cliVars

\* _shutdown_hooks.append(func); return func
on_shutdown(func) ==
    /\ TotalLen(heap, nalloc) < MaxRegs
    /\ heap' = [heap EXCEPT ![shutdown_hooks] = Append(@, func)]
    /\ ret' = func
    /\ registered' = [registered EXCEPT !["shutdown"] = Append(@, func)]
    /\ UNCHANGED <<startup_hooks, shutdown_hooks, nalloc, runVars>>
    /\ UNCHANGED cliVars

\* clear_hooks that forgets the shutdown registry.
clear_hooks_StartupOnly ==
    /\ nalloc + 2 <= 2 * MaxClears + 2
    /\ startup_hooks' = nalloc
    /\ nalloc' = nalloc + 2
    /\ registered' = [r \in Runners |-> <<>>]
    /\ fresh' = [r \in Runners |-> FALSE]
    /\ UNCHANGED <<heap, shutdown_hooks, ret, pc, iter, calls, logged, inflight, escaped>>
    /\ UNCHANGED cliVars

\* global _startup_hooks, _shutdown_hooks; each is bound to a new empty list.
\* A list iterator of a run in progress keeps the old list object.
clear_hooks ==
    /\ nalloc + 2 <= 2 * MaxClears + 2
    /\ startup_hooks' = nalloc
    /\ shutdown_hooks' = nalloc + 1
    /\ nalloc' = nalloc + 2
    /\ registered' = [r \in Runners |-> <<>>]
    /\ fresh' = [r \in Runners |-> FALSE]
    /\ UNCHANGED <<heap, ret, pc, iter, calls, logged, inflight, escaped>>
    /\ UNCHANGED cliVars

\* The call of run_startup_hooks() / run_shutdown_hooks(): "for hook in
\* _startup_hooks" evaluates the global once and makes a list iterator.
RunBegin(r) ==
    /\ pc[r] \in {"idle", "returned", "raised"}
    /\ pc' = [pc EXCEPT ![r] = "iter"]
    /\ iter' = [iter EXCEPT ![r] = [list |-> Registry(r), idx |-> 0]]
    /\ calls' = [calls EXCEPT ![r] = <<>>]
    /\ logged' = [logged EXCEPT ![r] = <<>>]
    /\ inflight' = [inflight EXCEPT ![r] = {}]
    /\ escaped' = [escaped EXCEPT ![r] = "none"]
    /\ fresh' = [fresh EXCEPT ![r] = TRUE]
    /\ UNCHANGED <<heap, startup_hooks, shutdown_hooks, nalloc, ret, registered>>
    /\ UNCHANGED cliVars

\* The runner without its "await result": the loop goes on at once.
PcAfterCall_NoAwait(o) == "iter"

\* Where the runner is after "result = hook()" ended with outcome o:
\* an awaitable result is awaited, a plain one lets the loop go on.
PcAfterCall(o) == IF o = "awaitable" THEN "await" ELSE "iter"

\* "except Exception as e": the handler formats hook.__name__ into the log
\* message; a hook without that attribute makes the handler itself raise
\* AttributeError, which leaves the runner.
Caught(r, hook) ==
    IF HasName(hook)
    THEN /\ logged' = [logged EXCEPT ![r] = Append(@, hook)]
         /\ pc' = [pc EXCEPT ![r] = "iter"]
         /\ UNCHANGED escaped
    ELSE /\ pc' = [pc EXCEPT ![r] = "raised"]
         /\ escaped' = [escaped EXCEPT ![r] = "AttributeError"]
         /\ UNCHANGED logged

\* A BaseException that is no Exception is not caught by "except Exception".
Uncaught(r) ==
    /\ pc' = [pc EXCEPT ![r] = "raised"]
    /\ escaped' = [escaped EXCEPT ![r] = "BaseException"]
    /\ UNCHANGED logged

\* One turn of the for loop up to the next suspension: the iterator yields the
\* next element of its list (as the list is now) and the hook is called.
RunCall(r, o) ==
    /\ pc[r] = "iter"
    /\ iter[r].idx < Len(heap[iter[r].list])
    /\ LET hook == heap[iter[r].list][iter[r].idx + 1] IN
       /\ iter' = [iter EXCEPT ![r].idx = @ + 1]
       /\ calls' = [calls EXCEPT ![r] = Append(@, hook)]
       /\ CASE o = "value" ->
                 /\ pc' = [pc EXCEPT ![r] = PcAfterCall(o)]
                 /\ UNCHANGED <<logged, inflight, escaped>>
            [] o = "awaitable" ->
                 /\ pc' = [pc EXCEPT ![r] = PcAfterCall(o)]
                 /\ inflight' = [inflight EXCEPT ![r] = @ \cup {iter[r].idx + 1}]
                 /\ UNCHANGED <<logged, escaped>>
            [] o = "exception" ->
                 /\ Caught(r, hook)
                 /\ UNCHANGED inflight
            [] o = "base_exception" ->
                 /\ Uncaught(r)
                 /\ UNCHANGED inflight
    /\ UNCHANGED <<heap, startup_hooks, shutdown_hooks, nalloc, ret, registered, fresh>>
    /\ UNCHANGED cliVars

\* "await result" ends: the awaitable resolved, or raised.
RunResume(r, o) ==
    /\ pc[r] = "await"
    /\ LET hook == heap[iter[r].list][iter[r].idx] IN
       /\ inflight' = [inflight EXCEPT ![r] = @ \ {iter[r].idx}]
       /\ CASE o = "value" ->
                 /\ pc' = [pc EXCEPT ![r] = "iter"]
                 /\ UNCHANGED <<logged, escaped>>
            [] o = "exception" -> Caught(r, hook)
            [] o = "base_exception" -> Uncaught(r)
    /\ UNCHANGED <<heap, startup_hooks, shutdown_hooks, nalloc, ret, iter, calls,
                   registered, fresh>>
    /\ UNCHANGED cliVars

\* A runner that empties its list when the loop is over (hooks run once).
RunReturn_Consumes(r) ==
    /\ pc[r] = "iter"
    /\ iter[r].idx >= Len(heap[iter[r].list])
    /\ pc' = [pc EXCEPT ![r] = "returned"]
    /\ heap' = [heap EXCEPT ![iter[r].list] = <<>>]
    /\ UNCHANGED <<startup_hooks, shutdown_hooks, nalloc, ret, iter, calls,
                   logged, inflight, escaped, registered, fresh>>
    /\ UNCHANGED cliVars

\* The iterator is exhausted: the coroutine returns None.
RunReturn(r) ==
    /\ pc[r] = "iter"
    /\ iter[r].idx >= Len(heap[iter[r].list])
    /\ pc' = [pc EXCEPT ![r] = "returned"]
    /\ UNCHANGED <<heap, startup_hooks, shutdown_hooks, nalloc, ret, iter, calls,
                   logged, inflight, escaped, registered, fresh>>
    /\ UNCHANGED cliVars

Register == \E func \in Hooks : on_startup(func) \/ on_shutdown(func)

Begin == \E r \in Runners : RunBegin(r)

Call == \E r \in Runners, o \in CallOutcomes : RunCall(r, o)

Resume == \E r \in Runners, o \in AwaitOutcomes : RunResume(r, o)

Return == \E r \in Runners : RunReturn(r)

NextHooks == Register \/ clear_hooks \/ Begin \/ Call \/ Resume \/ Return


(***************************************************************************)
(* Hooks that call on_startup, on_shutdown or clear_hooks while they run.  *)
(* Such a run can append to the list it iterates without end, so for the   *)
(* question whether a run ends the lists are kept as windows: a list that  *)
(* holds MaxRegs elements forgets its first element when one is appended.  *)
(* That is done only when no other run is in progress on that list, and    *)
(* the run that appends has passed the element (its iterator has yielded   *)
(* at least the first element when a hook runs), so no run can read the    *)
(* forgotten element again; the position of its iterator moves with the    *)
(* window.  The histories are windows as well.                             *)
(***************************************************************************)
Push(s, x) == IF Len(s) < MaxRegs THEN Append(s, x) ELSE Append(Tail(s), x)

\* The runners whose iterator is in progress on list l.
Readers(l) == {x \in Runners : pc[x] \in {"iter", "await"} /\ iter[x].list = l}

\* hook() is called and returns a plain value (RunCall with outcome "value",
\* the history a window).
RunCallReturns(r) ==
    /\ pc[r] = "iter"
    /\ iter[r].idx < Len(heap[iter[r].list])
    /\ iter' = [iter EXCEPT ![r].idx = @ + 1]
    /\ calls' = [calls EXCEPT ![r] = Push(@, heap[iter[r].list][iter[r].idx + 1])]
    /\ pc' = [pc EXCEPT ![r] = PcAfterCall("value")]
    /\ UNCHANGED <<heap, startup_hooks, shutdown_hooks, nalloc, ret, logged,
                   inflight, escaped, registered, fresh>>
    /\ UNCHANGED cliVars

\* hook() is called, and the hook's body registers the hook again, with
\* on_startup(hook) (q = "startup") or on_shutdown(hook) (q = "shutdown"),
\* before it returns a plain value.
RunCallRegisters(r, q) ==
    /\ pc[r] = "iter"
    /\ iter[r].idx < Len(heap[iter[r].list])
    /\ LET hook == heap[iter[r].list][iter[r].idx + 1]
           target == Registry(q)
           full == Len(heap[target]) >= MaxRegs
           shifts == full /\ iter[r].list = target
       IN
       /\ full => Readers(target) \subseteq {r}
       /\ heap' = [heap EXCEPT ![target] = Push(@, hook)]
       /\ iter' = [iter EXCEPT ![r].idx = IF shifts THEN @ ELSE @ + 1]
       /\ calls' = [calls EXCEPT ![r] = Push(@, hook)]
       /\ registered' = [registered EXCEPT ![q] = Push(@, hook)]
       /\ ret' = hook
    /\ UNCHANGED <<startup_hooks, shutdown_hooks, nalloc, pc, logged, inflight,
                   escaped, fresh>>
    /\ UNCHANGED cliVars

\* hook() is called, and the hook's body calls clear_hooks() before it
\* returns a plain value: the globals are rebound, the iterator keeps its list.
RunCallClears(r) ==
    /\ pc[r] = "iter"
    /\ iter[r].idx < Len(heap[iter[r].list])
    /\ nalloc + 2 <= 2 * MaxClears + 2
    /\ iter' = [iter EXCEPT ![r].idx = @ + 1]
    /\ calls' = [calls EXCEPT ![r] = Push(@, heap[iter[r].list][iter[r].idx + 1])]
    /\ startup_hooks' = nalloc
    /\ shutdown_hooks' = nalloc + 1
    /\ nalloc' = nalloc + 2
    /\ registered' = [x \in Runners |-> <<>>]
    /\ fresh' = [x \in Runners |-> FALSE]
    /\ UNCHANGED <<heap, ret, pc, logged, inflight, escaped>>
    /\ UNCHANGED cliVars

\* One step of the coroutine of runner r when every hook call returns a plain
\* value (the hook may have registered or cleared before it returns).
RunStep(r) ==
    \/ RunCallReturns(r)
    \/ RunCallRegisters(r, r)
    \/ RunCallClears(r)
    \/ RunReturn(r)

CallReturns == \E r \in Runners : RunCallReturns(r)

CallRegisters == \E r \in Runners : RunCallRegisters(r, r)

CallClears == \E r \in Runners : RunCallClears(r)

NextReentrant ==
    Register \/ Begin \/ CallReturns \/ CallRegisters \/ CallClears \/ Return
(***************************************************************************)
(* Part II: the command-line interface (tinybase/cli.py).  Each command    *)
(* is one process run from start to exit, so one action.  Text is a        *)
(* sequence of characters; a fixed piece of a template is one element.     *)
(* An Optional value is a sequence of length 0 (None) or 1.                *)
(***************************************************************************)
None == <<>>

Some(v) == <<v>>

\* Python truth of an Optional[str]: None and "" are both false.
Truthy(o) == o # None /\ o[1] # <<>>

\* Python's "a or b".
Or(a, b) == IF Truthy(a) THEN a ELSE b

\* Python's "pat in text", for a pattern that is not empty.
Contains(text, pat) ==
    \E i \in 1 .. (Len(text) - Len(pat) + 1) :
        text[i] = pat[1] /\ SubSeq(text, i, i + Len(pat) - 1) = pat

Absent == [exists |-> FALSE, text |-> <<>>]

File(text) == [exists |-> TRUE, text |-> text]

\* create_default_toml()
create_default_toml == <<"# TinyBase Configuration ... [admin] static_dir = builtin">>

NAME_EQ == "name=\""

QUOTE == "\""

REGISTER == "@register("

CLASS == "class "

BASEMODEL == "(BaseModel):"

hello == <<"h", "e", "l", "l", "o">>

\* create_example_function(): the two example registrations, add_numbers
\* and hello, with their model classes.
create_example_function ==
    <<"TinyBase Functions ... from tinybase.functions import Context, register ",
      CLASS, "A", "d", "d", "Input", BASEMODEL, " x: int y: int ",
      CLASS, "A", "d", "d", "Output", BASEMODEL, " sum: int ",
      REGISTER, NAME_EQ, "add_numbers", QUOTE,
      ", description=\"", "Add two numbers together", QUOTE,
      ", auth=\"public\", input_model=AddInput, output_model=AddOutput ... ",
      "def add_numbers(ctx, payload): return AddOutput(sum=payload.x + payload.y) ",
      CLASS, "H", "e", "l", "l", "o", "Input", BASEMODEL, " name: str = \"World\" ",
      CLASS, "H", "e", "l", "l", "o", "Output", BASEMODEL, " message: str ",
      REGISTER, NAME_EQ>> \o hello \o <<QUOTE,
      ", description=\"", "Say hello to someone", QUOTE,
      ", auth=\"auth\", input_model=HelloInput, output_model=HelloOutput ... ",
      "def hello(ctx, payload): return HelloOutput(...) ">>

(***************************************************************************)
(* tinybase.auth.hash_password is not part of the sources at hand; it is   *)
(* modelled from its contract: a salted one-way digest.                    *)
(***************************************************************************)
Salts == {"s1", "s2"}

hash_password(plain, salt) == <<"$digest$", salt>> \o plain

\* The example credentials.
Emails == {<<"a@x">>, <<"b@x">>}

Passwords == {<<"hunter2">>, <<"letmein">>}

\* session.exec(select(User).where(User.email == email)).first():
\* the position of the first row with that email, 0 if there is none.
FirstUser(table, email) ==
    IF \E i \in 1 .. Len(table) : table[i].email = email
    THEN CHOOSE i \in 1 .. Len(table) :
             /\ table[i].email = email
             /\ \A j \in 1 .. (i - 1) : table[j].email # email
    ELSE 0

\* A faulty variant: the row is inserted without looking for an existing one.
UpsertAdmin_AlwaysInsert(table, email, digest) ==
    Append(table, [email |-> email, password_hash |-> digest, is_admin |-> TRUE])

\* "if existing: ... else: ..." of admin_add (and, word for word, of init):
\* the existing row gets the new hash and the admin flag, or a row is added.
UpsertAdmin(table, email, digest) ==
    LET existing == FirstUser(table, email) IN
    IF existing # 0
    THEN [table EXCEPT ![existing] =
              [@ EXCEPT !.password_hash = digest, !.is_admin = TRUE]]
    ELSE Append(table, [email |-> email, password_hash |-> digest, is_admin |-> TRUE])

\* What init may be given: the two flags and the two environment variables.
InitEmailFlags == {None, Some(<<>>), Some(<<"a@x">>)}

InitPasswordFlags == {None, Some(<<>>), Some(<<"hunter2">>)}

InitEmailEnvs == {None, Some(<<"b@x">>)}

InitPasswordEnvs == {None, Some(<<"letmein">>)}

\* A faulty variant: the two files are written whether they exist or not.
init_resolved_Overwrite(email, password, salt) ==
    LET with_admin == Truthy(email) /\ Truthy(password) IN
    /\ out' = <<"Initializing TinyBase", "Created tinybase.toml",
                "Created functions.py with example functions">>
              \o (IF functions_dir THEN <<>> ELSE <<"Created functions/ directory">>)
              \o <<"Initializing database...", "Database initialized">>
              \o (IF ~with_admin THEN <<"Tip: Run 'tinybase admin add'">>
                  ELSE IF FirstUser(users, email[1]) # 0
                  THEN <<"Updated admin user: ">> \o email[1]
                  ELSE <<"Created admin user: ">> \o email[1])
              \o <<"TinyBase initialized successfully!">>
    /\ exit_code' = 0
    /\ files' = [files EXCEPT !["tinybase.toml"] = File(create_default_toml),
                              !["functions.py"] = File(create_example_function)]
    /\ functions_dir' = TRUE
    /\ db_created' = TRUE
    /\ users' = IF with_admin
                THEN UpsertAdmin(users, email[1], hash_password(password[1], salt))
                ELSE users
    /\ UNCHANGED <<extensions, ext_dirs, now, created>>
    /\ UNCHANGED <<hookVars, bound>>

\* The body of init once "admin_email or os.environ.get(...)" and
\* "admin_password or os.environ.get(...)" have been evaluated to email and
\* password (each a string or None).
init_resolved(email, password, salt) ==
    LET toml_missing == ~files["tinybase.toml"].exists
        functions_missing == ~files["functions.py"].exists
        with_admin == Truthy(email) /\ Truthy(password)
    IN
    /\ out' = <<"Initializing TinyBase",
                IF toml_missing THEN "Created tinybase.toml"
                                ELSE "tinybase.toml already exists",
                IF functions_missing THEN "Created functions.py with example functions"
                                     ELSE "functions.py already exists">>
              \o (IF functions_dir THEN <<>> ELSE <<"Created functions/ directory">>)
              \o <<"Initializing database...", "Database initialized">>
              \o (IF ~with_admin THEN <<"Tip: Run 'tinybase admin add'">>
                  ELSE IF FirstUser(users, email[1]) # 0
                  THEN <<"Updated admin user: ">> \o email[1]
                  ELSE <<"Created admin user: ">> \o email[1])
              \o <<"TinyBase initialized successfully!">>
    /\ exit_code' = 0
    /\ files' = [files EXCEPT
           !["tinybase.toml"] = IF toml_missing THEN File(create_default_toml) ELSE @,
           !["functions.py"] = IF functions_missing THEN File(create_example_function) ELSE @]
    /\ functions_dir' = TRUE
    /\ db_created' = TRUE
    /\ users' = IF with_admin
                THEN UpsertAdmin(users, email[1], hash_password(password[1], salt))
                ELSE users
    /\ UNCHANGED <<extensions, ext_dirs, now, created>>
    /\ UNCHANGED <<hookVars, bound>>

\* tinybase init [--admin-email E] [--admin-password P], run in the project
\* directory with TINYBASE_ADMIN_EMAIL / TINYBASE_ADMIN_PASSWORD as given.
init(admin_email, admin_password, env_email, env_password, salt) ==
    init_resolved(Or(admin_email, env_email), Or(admin_password, env_password), salt)

\* tinybase admin add EMAIL PASSWORD
admin_add(email, password, salt) ==
    /\ out' = (IF FirstUser(users, email) # 0 THEN <<"Updated admin user: ">>
                                              ELSE <<"Created admin user: ">>) \o email
    /\ exit_code' = 0
    /\ db_created' = TRUE
    /\ users' = UpsertAdmin(users, email, hash_password(password, salt))
    /\ UNCHANGED <<files, functions_dir, extensions, ext_dirs, now, created>>
    /\ UNCHANGED <<hookVars, bound>>

Init_cmd ==
    \E e \in InitEmailFlags, p \in InitPasswordFlags,
       ee \in InitEmailEnvs, ep \in InitPasswordEnvs, salt \in Salts :
        init(e, p, ee, ep, salt)

AdminAdd == \E e \in Emails, p \in Passwords, salt \in Salts : admin_add(e, p, salt)

(***************************************************************************)
(* functions new                                                           *)
(***************************************************************************)
\* "functions new" runs that add a block, in one behaviour
MaxNew == 2

LowerCase == {"a", "b", "d", "e", "h", "l", "m", "o", "r", "s", "u"}

UpperCase == {"A", "B", "D", "E", "H", "L", "M", "N", "O", "R", "S", "U"}

Digits == {"1", "2"}

\* str.upper / str.lower of one character.
Upper(c) ==
    CASE c = "a" -> "A" [] c = "b" -> "B" [] c = "d" -> "D" [] c = "e" -> "E"
      [] c = "h" -> "H" [] c = "l" -> "L" [] c = "m" -> "M" [] c = "o" -> "O"
      [] c = "r" -> "R" [] c = "s" -> "S" [] c = "u" -> "U" [] OTHER -> c

Lower(c) ==
    CASE c = "A" -> "a" [] c = "B" -> "b" [] c = "D" -> "d" [] c = "E" -> "e"
      [] c = "H" -> "h" [] c = "L" -> "l" [] c = "M" -> "m" [] c = "N" -> "n"
      [] c = "O" -> "o" [] c = "R" -> "r" [] c = "S" -> "s" [] c = "U" -> "u"
      [] OTHER -> c

\* str.split(sep): the pieces between the separators, empty ones included.
RECURSIVE split(_, _)
split(s, sep) ==
    IF \E i \in 1 .. Len(s) : s[i] = sep
    THEN LET i == CHOOSE k \in 1 .. Len(s) :
                      s[k] = sep /\ \A j \in 1 .. (k - 1) : s[j] # sep
         IN <<SubSeq(s, 1, i - 1)>> \o split(SubSeq(s, i + 1, Len(s)), sep)
    ELSE <<s>>

\* str.capitalize(): first character upper-cased, the rest lower-cased.
capitalize(word) ==
    [i \in 1 .. Len(word) |-> IF i = 1 THEN Upper(word[i]) ELSE Lower(word[i])]

\* "".join(words)
RECURSIVE join(_)
join(words) == IF words = <<>> THEN <<>> ELSE Head(words) \o join(Tail(words))

\* A faulty variant: lowerCamelCase, the first word left as it is.
snake_to_camel_LowerFirst(name) ==
    LET words == split(name, "_") IN
    join([i \in 1 .. Len(words) |->
              IF i = 1 THEN words[i] ELSE capitalize(words[i])])

\* "".join(word.capitalize() for word in name.split("_"))
snake_to_camel(name) ==
    LET words == split(name, "_") IN
    join([i \in 1 .. Len(words) |-> capitalize(words[i])])

\* [a-z0-9_]
NameChars == LowerCase \cup Digits \cup {"_"}

NameChar(c) == c \in NameChars

\* A faulty variant: the pattern without its "$".
NameMatches_NoEnd(name) ==
    /\ Len(name) >= 1
    /\ name[1] \in LowerCase

\* re.match(r"^[a-z][a-z0-9_]*$", name).  Python's "$" matches at the end
\* of the string and also just before a newline that ends the string.
NameMatches(name) ==
    /\ Len(name) >= 1
    /\ name[1] \in LowerCase
    /\ \E k \in 1 .. Len(name) :
          /\ \A i \in 2 .. k : NameChar(name[i])
          /\ \/ k = Len(name)
             \/ k = Len(name) - 1 /\ name[Len(name)] = "\n"

\* create_function_boilerplate(name, description)
create_function_boilerplate(name, description) ==
    LET camel_name == snake_to_camel(name) IN
    <<"# ==== # Function: ">> \o name \o <<" # ==== ",
      CLASS>> \o camel_name \o <<"Input", BASEMODEL, " Input model for ">>
    \o name \o <<" function. # TODO: Define input fields pass ",
      CLASS>> \o camel_name \o <<"Output", BASEMODEL, " Output model for ">>
    \o name \o <<" function. # TODO: Define output fields pass ",
      REGISTER, NAME_EQ>> \o name \o <<QUOTE,
      ", description=\"">> \o description \o <<QUOTE,
      ", auth=\"auth\", input_model=">> \o camel_name \o <<"Input",
      ", output_model=">> \o camel_name \o <<"Output",
      ", tags=[], ) def ">> \o name \o <<"(ctx: Context, payload: ">>
    \o camel_name \o <<"Input", ") -> ">> \o camel_name \o <<"Output", ": ">>
    \o description \o <<" TODO: Implement function logic return ">>
    \o camel_name \o <<"Output", "()">>

\* The names tried: snake_case names of several shapes, one that ends in a
\* newline, and names the pattern rejects ("Add-Numbers" among them).
Names ==
    { <<"a">>, <<"b">>, <<"a", "_", "b">>, <<"a", "_", "_", "1", "b">>,
      <<"a", "b", "_">>, <<"a", "1">>, hello, <<"a", "\n">>,
      <<>>, <<"1", "a">>, <<"_", "a">>, <<"a", "-", "b">>, <<"a", "B">>,
      <<"b", "\n", "\n">>,
      <<"A", "d", "d", "-", "N", "u", "m", "b", "e", "r", "s">> }

\* --description: the default.
Descriptions == {<<"TODO: Add description">>}

\* --file: the default ./functions.py
FunctionFiles == {"functions.py"}

\* tinybase functions new NAME [--description D] [--file F]: the three early
\* exits in the order of the code, then the append.
functions_new(name, description, file) ==
    /\ \/ /\ exit_code' = 1
          /\ out' = <<"Error: Function name must be lowercase with underscores (snake_case)">>
          /\ ~NameMatches(name)
          /\ UNCHANGED <<files, created>>
       \/ /\ exit_code' = 1
          /\ out' = <<"Error: Functions file not found: ", file,
                       "Run 'tinybase init' first">>
          /\ NameMatches(name)
          /\ ~files[file].exists
          /\ UNCHANGED <<files, created>>
       \/ /\ exit_code' = 1
          /\ out' = <<"Error: Function '">> \o name \o <<"' already exists in ", file>>
          /\ NameMatches(name)
          /\ files[file].exists
          /\ Contains(files[file].text, <<NAME_EQ>> \o name \o <<QUOTE>>)
          /\ UNCHANGED <<files, created>>
       \/ /\ exit_code' = 0
          /\ NameMatches(name)
          /\ files[file].exists
          /\ Cardinality(created) < MaxNew
          /\ out' = <<"Created function '">> \o name \o <<"' in ", file, "Edit the ">>
                     \o snake_to_camel(name) \o <<"Input", " and ">>
                     \o snake_to_camel(name) \o <<"Output">>
          /\ ~Contains(files[file].text, <<NAME_EQ>> \o name \o <<QUOTE>>)
          /\ created' = created \cup {name}
          /\ files' = [files EXCEPT ![file].text =
                           @ \o create_function_boilerplate(name, description)]
    /\ UNCHANGED <<functions_dir, db_created, users, extensions, ext_dirs, now>>
    /\ UNCHANGED <<hookVars, bound>>

FunctionsNew ==
    \E name \in Names, d \in Descriptions, file \in FunctionFiles :
        functions_new(name, d, file)

\* --env: the default and another one.
DeployEnvs == {"production", "staging"}

\* A faulty variant: the placeholder reports success.
functions_deploy_Succeeds(env) ==
    /\ out' = <<"Deploying functions to environment: ", env,
                "Note: Remote deployment is not yet implemented.">>
    /\ exit_code' = 0
    /\ UNCHANGED <<files, functions_dir, db_created, users, extensions, ext_dirs,
                   now, created>>
    /\ UNCHANGED <<hookVars, bound>>

\* tinybase functions deploy [--env ENV]
functions_deploy(env) ==
    /\ out' = <<"Deploying functions to environment: ", env,
                "Note: Remote deployment is not yet implemented.">>
    /\ exit_code' = 1
    /\ UNCHANGED <<files, functions_dir, db_created, users, extensions, ext_dirs,
                   now, created>>
    /\ UNCHANGED <<hookVars, bound>>

FunctionsDeploy == \E env \in DeployEnvs : functions_deploy(env)

(***************************************************************************)
(* extensions ...                                                          *)
(***************************************************************************)
\* readings of the clock in one behaviour
MaxTime == 3

ExtNames == {<<"alpha">>, <<"beta">>}

\* The names given on the command line: an installed or installable name,
\* or the empty string.
ExtArgs == ExtNames \cup {<<>>}

Versions == {"1.0", "1.1"}

\* session.exec(select(Extension).where(Extension.name == name)).first()
FirstExtension(table, name) ==
    IF \E i \in 1 .. Len(table) : table[i].name = name
    THEN CHOOSE i \in 1 .. Len(table) :
             /\ table[i].name = name
             /\ \A j \in 1 .. (i - 1) : table[j].name # name
    ELSE 0

RemoveAt(table, i) == SubSeq(table, 1, i - 1) \o SubSeq(table, i + 1, Len(table))

\* tinybase.utils.utcnow(): a reading later than every earlier one.
utcnow == now + 1

(***************************************************************************)
(* The installer (tinybase/extensions/installer.py) is not part of the     *)
(* sources at hand; its three entry points are modelled from their         *)
(* contracts.                                                              *)
(***************************************************************************)
\* install_extension(session, url): InstallError and no change, or the row
\* of the manifest's name is created (enabled) or updated.
InstallOutcomes ==
    {[error |-> TRUE, name |-> <<>>, version |-> ""]}
    \cup {[error |-> FALSE, name |-> n, version |-> v] : n \in ExtNames, v \in Versions}

install_extension(table, o) ==
    LET i == FirstExtension(table, o.name) IN
    IF i # 0
    THEN [table EXCEPT ![i] = [@ EXCEPT !.version = o.version, !.updated_at = utcnow]]
    ELSE Append(table, [name |-> o.name, version |-> o.version,
                        is_enabled |-> TRUE, updated_at |-> utcnow])

\* uninstall_extension(session, name): FALSE when there is no such record,
\* else the record and the files are removed and the result is TRUE.
uninstall_extension_result(table, name) == FirstExtension(table, name) # 0

uninstall_extension_table(table, name) ==
    IF FirstExtension(table, name) # 0
    THEN RemoveAt(table, FirstExtension(table, name))
    ELSE table

\* check_for_updates(session, name): None, or (current, latest); which one
\* is decided by the remote repository: newer holds the names with an update.
check_for_updates(newer, name) == name \in newer

\* A faulty variant: the database is initialised before the confirmation is
\* asked for.
extensions_install_DbFirst(yes, confirm, o) ==
    IF ~yes /\ ~confirm
    THEN /\ out' = <<"WARNING: Extensions can execute arbitrary Python code.",
                     "Install extension from URL? [y/N]", "Installation cancelled.">>
         /\ exit_code' = 0
         /\ db_created' = TRUE
         /\ UNCHANGED <<files, functions_dir, users, extensions, ext_dirs, now, created>>
         /\ UNCHANGED <<hookVars, bound>>
    ELSE /\ ~o.error => now < MaxTime
         /\ db_created' = TRUE
         /\ IF o.error
            THEN /\ out' = (IF yes THEN <<>>
                            ELSE <<"WARNING: Extensions can execute arbitrary Python code.",
                                   "Install extension from URL? [y/N]">>)
                           \o <<"Installing extension from URL", "Error: InstallError">>
                 /\ exit_code' = 1
                 /\ UNCHANGED <<extensions, ext_dirs, now>>
            ELSE /\ extensions' = install_extension(extensions, o)
                 /\ ext_dirs' = ext_dirs \cup {o.name}
                 /\ now' = utcnow
                 /\ out' = (IF yes THEN <<>>
                            ELSE <<"WARNING: Extensions can execute arbitrary Python code.",
                                   "Install extension from URL? [y/N]">>)
                           \o <<"Installing extension from URL", "Successfully installed: ">>
                           \o o.name \o <<"Note: Restart the server to load the extension.">>
                 /\ exit_code' = 0
         /\ UNCHANGED <<files, functions_dir, users, created>>
         /\ UNCHANGED <<hookVars, bound>>

\* tinybase extensions install URL [--yes]
extensions_install(yes, confirm, o) ==
    IF ~yes /\ ~confirm
    THEN /\ out' = <<"WARNING: Extensions can execute arbitrary Python code.",
                     "Install extension from URL? [y/N]", "Installation cancelled.">>
         /\ exit_code' = 0
         /\ UNCHANGED <<files, functions_dir, db_created, users, extensions,
                        ext_dirs, now, created>>
         /\ UNCHANGED <<hookVars, bound>>
    ELSE /\ ~o.error => now < MaxTime
         /\ db_created' = TRUE
         /\ IF o.error
            THEN /\ out' = (IF yes THEN <<>>
                            ELSE <<"WARNING: Extensions can execute arbitrary Python code.",
                                   "Install extension from URL? [y/N]">>)
                           \o <<"Installing extension from URL", "Error: InstallError">>
                 /\ exit_code' = 1
                 /\ UNCHANGED <<extensions, ext_dirs, now>>
            ELSE /\ extensions' = install_extension(extensions, o)
                 /\ ext_dirs' = ext_dirs \cup {o.name}
                 /\ now' = utcnow
                 /\ out' = (IF yes THEN <<>>
                            ELSE <<"WARNING: Extensions can execute arbitrary Python code.",
                                   "Install extension from URL? [y/N]">>)
                           \o <<"Installing extension from URL", "Successfully installed: ">> \o o.name \o <<
                                "Note: Restart the server to load the extension.">>
                 /\ exit_code' = 0
         /\ UNCHANGED <<files, functions_dir, users, created>>
         /\ UNCHANGED <<hookVars, bound>>

\* tinybase extensions uninstall NAME [--yes]
extensions_uninstall(name, yes, confirm) ==
    IF ~yes /\ ~confirm
    THEN /\ out' = <<"Uninstall extension? [y/N]", "Uninstallation cancelled.">>
         /\ exit_code' = 0
         /\ UNCHANGED <<files, functions_dir, db_created, users, extensions,
                        ext_dirs, now, created>>
         /\ UNCHANGED <<hookVars, bound>>
    ELSE /\ db_created' = TRUE
         /\ extensions' = uninstall_extension_table(extensions, name)
         /\ ext_dirs' = ext_dirs \ {name}
         /\ IF uninstall_extension_result(extensions, name)
            THEN /\ out' = (IF yes THEN <<>> ELSE <<"Uninstall extension? [y/N]">>)
                           \o <<"Uninstalled extension: ">> \o name \o <<
                                "Note: Restart the server to fully unload the extension.">>
                 /\ exit_code' = 0
            ELSE /\ out' = (IF yes THEN <<>> ELSE <<"Uninstall extension? [y/N]">>)
                           \o <<"Error: Extension '">> \o name \o <<"' not found.">>
                 /\ exit_code' = 1
         /\ UNCHANGED <<files, functions_dir, users, now, created>>
         /\ UNCHANGED <<hookVars, bound>>

\* tinybase extensions list
extensions_list ==
    /\ db_created' = TRUE
    /\ out' = IF extensions = <<>>
              THEN <<"No extensions installed.", "Install an extension with:">>
              ELSE <<"Installed Extensions:">>
                   \o join([i \in 1 .. Len(extensions) |->
                          extensions[i].name \o
                          <<extensions[i].version,
                            IF extensions[i].is_enabled THEN "enabled" ELSE "disabled">>])
    /\ exit_code' = 0
    /\ UNCHANGED <<files, functions_dir, users, extensions, ext_dirs, now, created>>
    /\ UNCHANGED <<hookVars, bound>>

\* A faulty variant: enable without the "already enabled" return.
extensions_enable_NoReturn(name) ==
    LET extension == FirstExtension(extensions, name) IN
    /\ extension # 0 => now < MaxTime
    /\ db_created' = TRUE
    /\ IF extension = 0
       THEN /\ out' = <<"Error: Extension '">> \o name \o <<"' not found.">>
            /\ exit_code' = 1
            /\ UNCHANGED <<extensions, now>>
       ELSE /\ extensions' = [extensions EXCEPT ![extension] =
                                  [@ EXCEPT !.is_enabled = TRUE, !.updated_at = utcnow]]
            /\ now' = utcnow
            /\ out' = <<"Enabled extension: ">> \o name \o <<
                        "Note: Restart the server to load the extension.">>
            /\ exit_code' = 0
    /\ UNCHANGED <<files, functions_dir, users, ext_dirs, created>>
    /\ UNCHANGED <<hookVars, bound>>

\* tinybase extensions enable NAME
extensions_enable(name) ==
    LET extension == FirstExtension(extensions, name) IN
    /\ (extension # 0 /\ ~extensions[extension].is_enabled) => now < MaxTime
    /\ db_created' = TRUE
    /\ IF extension = 0
       THEN /\ out' = <<"Error: Extension '">> \o name \o <<"' not found.">>
            /\ exit_code' = 1
            /\ UNCHANGED <<extensions, now>>
       ELSE IF extensions[extension].is_enabled
       THEN /\ out' = <<"Extension '">> \o name \o <<"' is already enabled.">>
            /\ exit_code' = 0
            /\ UNCHANGED <<extensions, now>>
       ELSE /\ extensions' = [extensions EXCEPT ![extension] =
                                  [@ EXCEPT !.is_enabled = TRUE, !.updated_at = utcnow]]
            /\ now' = utcnow
            /\ out' = <<"Enabled extension: ">> \o name \o <<
                        "Note: Restart the server to load the extension.">>
            /\ exit_code' = 0
    /\ UNCHANGED <<files, functions_dir, users, ext_dirs, created>>
    /\ UNCHANGED <<hookVars, bound>>

\* A faulty variant: disable flips the flag and leaves updated_at as it was.
extensions_disable_NoTimestamp(name) ==
    LET extension == FirstExtension(extensions, name) IN
    /\ (extension # 0 /\ extensions[extension].is_enabled) => now < MaxTime
    /\ db_created' = TRUE
    /\ IF extension = 0
       THEN /\ out' = <<"Error: Extension '">> \o name \o <<"' not found.">>
            /\ exit_code' = 1
            /\ UNCHANGED <<extensions, now>>
       ELSE IF ~extensions[extension].is_enabled
       THEN /\ out' = <<"Extension '">> \o name \o <<"' is already disabled.">>
            /\ exit_code' = 0
            /\ UNCHANGED <<extensions, now>>
       ELSE /\ extensions' = [extensions EXCEPT ![extension] =
                                  [@ EXCEPT !.is_enabled = FALSE]]
            /\ now' = utcnow
            /\ out' = <<"Disabled extension: ">> \o name \o <<
                        "Note: Restart the server to fully unload the extension.">>
            /\ exit_code' = 0
    /\ UNCHANGED <<files, functions_dir, users, ext_dirs, created>>
    /\ UNCHANGED <<hookVars, bound>>

\* tinybase extensions disable NAME
extensions_disable(name) ==
    LET extension == FirstExtension(extensions, name) IN
    /\ (extension # 0 /\ extensions[extension].is_enabled) => now < MaxTime
    /\ db_created' = TRUE
    /\ IF extension = 0
       THEN /\ out' = <<"Error: Extension '">> \o name \o <<"' not found.">>
            /\ exit_code' = 1
            /\ UNCHANGED <<extensions, now>>
       ELSE IF ~extensions[extension].is_enabled
       THEN /\ out' = <<"Extension '">> \o name \o <<"' is already disabled.">>
            /\ exit_code' = 0
            /\ UNCHANGED <<extensions, now>>
       ELSE /\ extensions' = [extensions EXCEPT ![extension] =
                                  [@ EXCEPT !.is_enabled = FALSE, !.updated_at = utcnow]]
            /\ now' = utcnow
            /\ out' = <<"Disabled extension: ">> \o name \o <<
                        "Note: Restart the server to fully unload the extension.">>
            /\ exit_code' = 0
    /\ UNCHANGED <<files, functions_dir, users, ext_dirs, created>>
    /\ UNCHANGED <<hookVars, bound>>

\* The lines check-updates prints for the rows it checks.
UpdateLines(rows, newer) ==
    join([i \in 1 .. Len(rows) |->
        rows[i].name \o
        <<IF check_for_updates(newer, rows[i].name) THEN "(update available)"
                                                    ELSE "(up to date)">>])

\* tinybase extensions check-updates [NAME]
extensions_check_updates(name, newer) ==
    LET found == FirstExtension(extensions, name[1])
        rows == IF Truthy(name) THEN <<extensions[found]>> ELSE extensions
    IN
    /\ db_created' = TRUE
    /\ IF Truthy(name) /\ found = 0
       THEN /\ out' = <<"Error: Extension '">> \o name[1] \o <<"' not found.">>
            /\ exit_code' = 1
       ELSE IF rows = <<>>
       THEN /\ out' = <<"No extensions installed.">>
            /\ exit_code' = 0
       ELSE /\ out' = <<"Checking for updates...">> \o UpdateLines(rows, newer)
                      \o (IF \E i \in 1 .. Len(rows) : check_for_updates(newer, rows[i].name)
                          THEN <<"To update an extension, uninstall and reinstall it:">>
                          ELSE <<>>)
            /\ exit_code' = 0
    /\ UNCHANGED <<files, functions_dir, users, extensions, ext_dirs, now, created>>
    /\ UNCHANGED <<hookVars, bound>>

ExtensionsInstall ==
    \E yes \in BOOLEAN, confirm \in BOOLEAN, o \in InstallOutcomes :
        extensions_install(yes, confirm, o)

ExtensionsUninstall ==
    \E name \in ExtArgs, yes \in BOOLEAN, confirm \in BOOLEAN :
        extensions_uninstall(name, yes, confirm)

ExtensionsEnable == \E name \in ExtArgs : extensions_enable(name)

ExtensionsDisable == \E name \in ExtArgs : extensions_disable(name)

ExtensionsCheckUpdates ==
    \E name \in {None} \cup {Some(n) : n \in ExtArgs}, newer \in SUBSET ExtNames :
        extensions_check_updates(name, newer)

(***************************************************************************)
(* serve                                                                   *)
(***************************************************************************)
\* Python truth of an Optional[int]: None and 0 are both false.
TruthyInt(o) == o # None /\ o[1] # 0

\* "a or b" for Optional[int].
OrInt(a, b) == IF TruthyInt(a) THEN a ELSE b

\* --host: not given, or a string (the empty one among them).
HostFlags == {None, Some(<<>>), Some(<<"localhost">>), Some(<<"::1">>)}

\* --port: not given, or an integer (0 asks the system for a free port).
PortFlags == {None, Some(0), Some(8080), Some(65535)}

(***************************************************************************)
(* tinybase.config.settings is not part of the sources at hand; what it    *)
(* returns is modelled from its contract: the [server] host and port of    *)
(* tinybase.toml, "0.0.0.0" and 8000 when the file does not set them.      *)
(***************************************************************************)
Settings ==
    [server_host : {<<"0.0.0.0">>, <<"127.0.0.1">>}, server_port : {8000, 9000}]

\* str(bind_port) in the f-strings
PortText(n) ==
    CASE n = 0 -> "0" [] n = 8000 -> "8000" [] n = 8080 -> "8080"
      [] n = 9000 -> "9000" [] n = 65535 -> "65535"

\* tinybase serve [--host H] [--port P] [--reload], until the server stops.
serve(host, port, reload, config) ==
    LET bind_host == Or(host, Some(config.server_host))[1]
        bind_port == OrInt(port, Some(config.server_port))[1]
    IN
    /\ bound' = Some([host |-> bind_host, port |-> bind_port, reload |-> reload])
    /\ out' = <<"Starting TinyBase server on ">> \o bind_host
              \o <<":", PortText(bind_port)>>
    /\ exit_code' = 0
    /\ UNCHANGED <<files, functions_dir, db_created, users, extensions, ext_dirs,
                   now, created>>
    /\ UNCHANGED hookVars

Serve ==
    \E host \in HostFlags, port \in PortFlags, reload \in BOOLEAN, config \in Settings :
        serve(host, port, reload, config)

(***************************************************************************)
(* Initial states and specifications.                                      *)
(***************************************************************************)
\* A fresh directory: no file, no database.
InitCli ==
    /\ files = [p \in {"tinybase.toml", "functions.py"} |-> Absent]
    /\ functions_dir = FALSE
    /\ db_created = FALSE
    /\ users = <<>>
    /\ extensions = <<>>
    /\ ext_dirs = {}
    /\ now = 0
    /\ exit_code = 0
    /\ out = <<>>
    /\ created = {}
    /\ bound = <<>>

Init == InitHooks /\ InitCli

\* A directory that may already hold a functions.py written by hand, where
\* a comment quotes the registration of a function that is gone.
InitFunctions ==
    /\ InitHooks
    /\ files \in {[p \in {"tinybase.toml", "functions.py"} |-> Absent],
                  [p \in {"tinybase.toml", "functions.py"} |->
                      IF p = "functions.py"
                      THEN File(<<"from tinybase.functions import Context, register ",
                                  "# was: @register(", NAME_EQ, "b", QUOTE, ") ">>)
                      ELSE Absent]}
    /\ functions_dir = FALSE
    /\ db_created = FALSE
    /\ users = <<>>
    /\ extensions = <<>>
    /\ ext_dirs = {}
    /\ now = 0
    /\ exit_code = 0
    /\ out = <<>>
    /\ created = {}
    /\ bound = <<>>

\* A database that may already hold a user who registered through the API
\* and is no admin.
InitProject ==
    /\ InitHooks
    /\ files = [p \in {"tinybase.toml", "functions.py"} |-> Absent]
    /\ functions_dir = FALSE
    /\ \E registered_before \in BOOLEAN :
          /\ db_created = registered_before
          /\ users = IF registered_before
                     THEN <<[email |-> <<"a@x">>,
                             password_hash |-> hash_password(<<"hunter2">>, "s1"),
                             is_admin |-> FALSE]>>
                     ELSE <<>>
    /\ extensions = <<>>
    /\ ext_dirs = {}
    /\ now = 0
    /\ exit_code = 0
    /\ out = <<>>
    /\ created = {}
    /\ bound = <<>>

\* A directory where each of tinybase.toml, functions.py and functions/ may
\* already be there, the files with content of the user's own.
InitDirectory ==
    /\ InitHooks
    /\ \E toml \in {Absent, File(<<"[server] port = 9000 ">>)},
          functions \in {Absent, File(<<"from tinybase.functions import Context, register ",
                                        "# was: @register(", NAME_EQ, "b", QUOTE, ") ">>)} :
          files = [p \in {"tinybase.toml", "functions.py"} |->
                      IF p = "tinybase.toml" THEN toml ELSE functions]
    /\ functions_dir \in BOOLEAN
    /\ db_created = FALSE
    /\ users = <<>>
    /\ extensions = <<>>
    /\ ext_dirs = {}
    /\ now = 0
    /\ exit_code = 0
    /\ out = <<>>
    /\ created = {}
    /\ bound = <<>>

\* The project commands: init, admin add, functions deploy.
NextProject == Init_cmd \/ AdminAdd \/ FunctionsDeploy

\* init with no admin credentials given: the scaffolding alone.
InitScaffold == \E salt \in {"s1"} : init(None, None, None, None, salt)

NextFunctions == InitScaffold \/ FunctionsNew

\* serve in a project directory, beside the commands that only print.
NextServe == Serve \/ InitScaffold \/ FunctionsDeploy

NextExtensions ==
    \/ ExtensionsInstall
    \/ ExtensionsUninstall
    \/ extensions_list
    \/ ExtensionsEnable
    \/ ExtensionsDisable
    \/ ExtensionsCheckUpdates

Next == NextHooks \/ NextProject \/ NextFunctions \/ NextExtensions \/ NextServe
            \/ NextReentrant

SpecHooks == Init /\ [][NextHooks]_vars

\* The event loop goes on with a coroutine that can go on: a hook call that
\* was begun ends, an awaitable that is awaited ends.
SpecReentrant ==
    /\ Init
    /\ [][NextReentrant]_vars
    /\ \A r \in Runners : WF_vars(RunStep(r))

SpecProject == InitProject /\ [][NextProject]_vars

SpecFunctions == InitFunctions /\ [][NextFunctions]_vars

SpecExtensions == Init /\ [][NextExtensions]_vars

SpecServe == Init /\ [][NextServe]_vars

\* init run again and again in one directory.
SpecInit == InitDirectory /\ [][Init_cmd]_vars

Spec == Init /\ [][Next]_vars

(***************************************************************************)
(* Properties of the hooks.                                                *)
(***************************************************************************)
IsPrefix(s, t) == Len(s) <= Len(t) /\ SubSeq(t, 1, Len(s)) = s

\* The run of r ends in this step, by returning or by an error leaving it.
RunEnds(r) == pc[r] \in {"iter", "await"} /\ pc'[r] \in {"returned", "raised"}

\* C1: a run calls every registered hook, in the order of registration.
\* When a run ends, the hooks it called are exactly the registrations made
\* (no clear_hooks having intervened), in their order.  Stated for the runs
\* in which no hook raised a BaseException.
C1_EveryHookInRegistrationOrder ==
    [][\A r \in Runners :
          (RunEnds(r) /\ fresh'[r] /\ escaped'[r] # "BaseException")
              => calls'[r] = registered'[r]]_vars

\* C2: a hook that raises does not end the run: the runner goes on to the
\* hooks after it and returns normally, no error leaving it.  Stated for the
\* failures that are Exceptions, which "except Exception" is there to catch.
C2_HookErrorContained ==
    \A r \in Runners : escaped[r] # "BaseException" => pc[r] # "raised"

\* C3: within one run no two hooks are in progress at once: while the
\* awaitable of a hook is pending the runner is suspended on that one hook,
\* and a hook is only ever called with nothing pending.
C3_HooksSequential ==
    \A r \in Runners :
        /\ Cardinality(inflight[r]) <= 1
        /\ inflight[r] # {} => (pc[r] = "await" /\ inflight[r] = {iter[r].idx})
        /\ pc[r] = "iter" => inflight[r] = {}

\* C3 witness: the runner is suspended on a hook with further hooks to come,
\* while the other runner is suspended too (concurrency across runs only).
C3_Witness ==
    /\ pc["startup"] = "await"
    /\ iter["startup"].idx < Len(heap[iter["startup"].list])
    /\ pc["shutdown"] = "await"

\* C4: clear_hooks leaves both registries empty, and a run begun after it
\* calls only hooks registered after it (none, if none was registered).
C4_ClearHooksEmpties ==
    /\ [][clear_hooks => /\ heap'[startup_hooks'] = <<>>
                         /\ heap'[shutdown_hooks'] = <<>>]_vars
    /\ [](\A r \in Runners : fresh[r] => IsPrefix(calls[r], registered[r]))

\* C4 witness: hooks were registered, then cleared; the startup run after the
\* clear called nothing, the shutdown run called the one hook registered since.
C4_Witness ==
    /\ nalloc > 2
    /\ heap[0] # <<>>
    /\ pc["startup"] = "returned" /\ fresh["startup"] /\ calls["startup"] = <<>>
    /\ pc["shutdown"] = "returned" /\ fresh["shutdown"] /\ Len(calls["shutdown"]) = 1

\* C5: on_startup(fn) appends fn to the startup registry, returns fn and
\* touches nothing else; on_shutdown(fn) likewise for the shutdown registry.
AppendedTo(list, func) ==
    /\ Len(heap'[list]) = Len(heap[list]) + 1
    /\ heap'[list][Len(heap'[list])] = func
    /\ SubSeq(heap'[list], 1, Len(heap[list])) = heap[list]
    /\ \A i \in ListIds \ {list} : heap'[i] = heap[i]
    /\ ret' = func
    /\ startup_hooks' = startup_hooks
    /\ shutdown_hooks' = shutdown_hooks

C5_RegisterAppends ==
    [][\A func \in Hooks :
          /\ on_startup(func) => AppendedTo(startup_hooks, func)
          /\ on_shutdown(func) => AppendedTo(shutdown_hooks, func)]_vars

\* C5 witness: the last registration returned its argument, now last of a
\* startup registry of two, with the shutdown registry filled as well.
C5_Witness ==
    /\ ret # "none"
    /\ Len(heap[startup_hooks]) = 2
    /\ heap[startup_hooks][2] = ret
    /\ heap[startup_hooks][1] # ret
    /\ Len(heap[shutdown_hooks]) = 1

(***************************************************************************)
(* Properties of the command-line interface.                               *)
(***************************************************************************)
RowsFor(table, email) == {i \in 1 .. Len(table) : table[i].email = email}

\* The step made email an admin with password: one row for the email after
\* it, made by this step if there was none and else the old row in its old
\* place, the other rows as they were, the row an admin whose hash is a
\* digest of the password and is not the password.
AdminUpserted(email, password) ==
    /\ Cardinality(RowsFor(users', email)) = 1
    /\ RowsFor(users, email) = {} =>
          /\ Len(users') = Len(users) + 1
          /\ SubSeq(users', 1, Len(users)) = users
    /\ RowsFor(users, email) # {} =>
          /\ Len(users') = Len(users)
          /\ RowsFor(users', email) = RowsFor(users, email)
          /\ \A i \in 1 .. Len(users) : users[i].email # email => users'[i] = users[i]
    /\ \A i \in RowsFor(users', email) :
          /\ users'[i].is_admin
          /\ users'[i].password_hash # password
          /\ \E salt \in Salts : users'[i].password_hash = hash_password(password, salt)

\* C6: there is never more than one User row per email, and every
\* "admin add" (and every init that has resolved admin credentials) creates
\* the row of its email or updates it in place, leaving it an admin whose
\* password hash is not the plaintext.
C6_OneAdminRowPerEmail ==
    /\ [](\A i, j \in 1 .. Len(users) : users[i].email = users[j].email => i = j)
    /\ [][/\ \A e \in Emails, p \in Passwords, salt \in Salts :
                admin_add(e, p, salt) => AdminUpserted(e, p)
          /\ \A e \in Emails, p \in Passwords, salt \in Salts :
                init_resolved(Some(e), Some(p), salt) => AdminUpserted(e, p)]_vars

\* C6 witness: the user who had registered as a non-admin has been made an
\* admin with a new hash by an update, beside a row created for another email.
C6_Witness ==
    /\ Len(users) = 2
    /\ users[1].email = <<"a@x">>
    /\ users[1].is_admin
    /\ users[1].password_hash # hash_password(<<"hunter2">>, "s1")
    /\ users[2].is_admin
    /\ out = <<"Updated admin user: ", "a@x">>

\* How often the token c occurs in text.
Count(text, c) == Cardinality({i \in 1 .. Len(text) : text[i] = c})

\* CamelCase, read off character by character: underscores go, and the
\* character that begins the name or follows an underscore is upper-cased.
RECURSIVE CamelFrom(_, _)
CamelFrom(s, start) ==
    IF s = <<>> THEN <<>>
    ELSE IF Head(s) = "_" THEN CamelFrom(Tail(s), TRUE)
    ELSE <<IF start THEN Upper(Head(s)) ELSE Head(s)>> \o CamelFrom(Tail(s), FALSE)

CamelCase(name) == CamelFrom(name, TRUE)

\* A name the pattern does not match: empty, or not beginning with a
\* lower-case letter, or holding a character that is neither a lower-case
\* letter, a digit nor an underscore (a newline that ends the name is let
\* through by Python's "$").
NotSnakeCase(name) ==
    \/ name = <<>>
    \/ name[1] \notin LowerCase
    \/ \E i \in 2 .. Len(name) :
          /\ name[i] \notin (LowerCase \cup Digits \cup {"_"})
          /\ ~(i = Len(name) /\ name[i] = "\n")

Registration(name) == <<NAME_EQ>> \o name \o <<QUOTE>>

\* The step appended one registration block for name to file f.
BlockAppended(name, f) ==
    LET old == files[f].text
        new == files'[f].text
        block == SubSeq(new, Len(old) + 1, Len(new))
    IN
    /\ files'[f].exists
    /\ Len(new) > Len(old)
    /\ SubSeq(new, 1, Len(old)) = old
    /\ Count(block, REGISTER) = 1
    /\ Contains(block, <<REGISTER>> \o Registration(name))
    /\ Count(block, CLASS) = 2
    /\ Contains(block, <<CLASS>> \o CamelCase(name) \o <<"Input", BASEMODEL>>)
    /\ Contains(block, <<CLASS>> \o CamelCase(name) \o <<"Output", BASEMODEL>>)
    /\ exit_code' = 0

\* C7: for a name that matches the pattern and is not yet in the existing
\* target file, "functions new" appends exactly one registration block after
\* the unchanged old content, its classes named CamelCase(name)Input and
\* CamelCase(name)Output; run again with a name it has added, it exits 1
\* and appends nothing.
C7_FunctionsNewAppendsOneBlock ==
    [][\A name \in Names, d \in Descriptions, f \in FunctionFiles :
          functions_new(name, d, f) =>
              /\ (~NotSnakeCase(name) /\ files[f].exists
                    /\ ~Contains(files[f].text, Registration(name)))
                 => BlockAppended(name, f)
              /\ name \in created => (exit_code' = 1 /\ files' = files)]_vars

\* C7 witness: a_b was added with classes ABInput and ABOutput, and the
\* last run, for a name already there, was refused.
C7_Witness ==
    /\ created = {<<"a", "_", "b">>}
    /\ Contains(files["functions.py"].text, <<CLASS, "A", "B", "Input", BASEMODEL>>)
    /\ Contains(files["functions.py"].text, <<CLASS, "A", "B", "Output", BASEMODEL>>)
    /\ ~Contains(files["functions.py"].text, Registration(hello))
    /\ out = <<"Error: Function '", "a", "_", "b", "' already exists in ", "functions.py">>
    /\ exit_code = 1

Enabled(name, flag) ==
    \E i \in 1 .. Len(extensions) :
        extensions[i].name = name /\ extensions[i].is_enabled = flag

\* C9: enable on an enabled extension (disable on a disabled one) reports
\* it, exits 0 and changes no row, no updated_at and nothing else.
C9_AlreadyEnabledIsNoOp ==
    [][\A name \in ExtArgs :
          /\ (extensions_enable(name) /\ Enabled(name, TRUE)) =>
                /\ out' = <<"Extension '">> \o name \o <<"' is already enabled.">>
                /\ exit_code' = 0
                /\ UNCHANGED <<extensions, ext_dirs, now, users, files>>
          /\ (extensions_disable(name) /\ Enabled(name, FALSE)) =>
                /\ out' = <<"Extension '">> \o name \o <<"' is already disabled.">>
                /\ exit_code' = 0
                /\ UNCHANGED <<extensions, ext_dirs, now, users, files>>]_vars

\* C9 witness: enable was run on an extension that was enabled, while the
\* other extension is disabled.
C9_Witness ==
    /\ out = <<"Extension '", "alpha", "' is already enabled.">>
    /\ exit_code = 0
    /\ \E i, j \in 1 .. Len(extensions) :
          extensions[i].is_enabled /\ ~extensions[j].is_enabled

NoRecord(name) == \A i \in 1 .. Len(extensions) : extensions[i].name # name

\* The command ended on "Error: Extension 'name' not found." with exit
\* code 1 and the table as it was.
NotFoundReported(name) ==
    LET msg == <<"Error: Extension '">> \o name \o <<"' not found.">> IN
    /\ exit_code' = 1
    /\ Len(out') >= Len(msg)
    /\ SubSeq(out', Len(out') - Len(msg) + 1, Len(out')) = msg
    /\ extensions' = extensions

\* C10: for a name with no Extension record, enable, disable, uninstall
\* (confirmed, or with --yes) and "check-updates NAME" report that the
\* extension was not found and exit 1, no row being made, changed or removed.
C10_UnknownNameNotFound ==
    [][\A name \in ExtArgs :
          NoRecord(name) =>
              /\ extensions_enable(name) => NotFoundReported(name)
              /\ extensions_disable(name) => NotFoundReported(name)
              /\ \A yes \in BOOLEAN, confirm \in BOOLEAN :
                    (extensions_uninstall(name, yes, confirm) /\ (yes \/ confirm))
                        => NotFoundReported(name)
              /\ \A newer \in SUBSET ExtNames :
                    extensions_check_updates(Some(name), newer) => NotFoundReported(name)]_vars

(***************************************************************************)
(* Further properties of the command-line interface and of the hooks.      *)
(***************************************************************************)
\* Where the line is in the output, 0 if it is not there.
LineAt(lines, line) ==
    IF \E i \in 1 .. Len(lines) : lines[i] = line
    THEN CHOOSE i \in 1 .. Len(lines) : lines[i] = line
    ELSE 0

\* C11: "extensions install" without --yes prints the warning and asks
\* before anything else; declined, it exits 0 with install_extension not
\* called, the database not initialised and nothing changed; confirmed, or
\* with --yes (and then no prompt), it calls install_extension and exits 1
\* exactly when that raises InstallError, 0 otherwise.
C11_InstallAsksFirst ==
    [][\A yes \in BOOLEAN, confirm \in BOOLEAN, o \in InstallOutcomes :
          extensions_install(yes, confirm, o) =>
              LET warned == LineAt(out', "WARNING: Extensions can execute arbitrary Python code.")
                  asked == LineAt(out', "Install extension from URL? [y/N]")
                  called == LineAt(out', "Installing extension from URL")
              IN
              /\ ~yes => (warned = 1 /\ asked = 2)
              /\ yes => asked = 0
              /\ (~yes /\ ~confirm) =>
                    /\ exit_code' = 0
                    /\ called = 0
                    /\ UNCHANGED <<db_created, extensions, ext_dirs, now, users, files>>
              /\ (yes \/ confirm) =>
                    /\ called > asked
                    /\ db_created'
                    /\ exit_code' = (IF o.error THEN 1 ELSE 0)
                    /\ o.error => extensions' = extensions
                    /\ ~o.error => extensions' = install_extension(extensions, o)]_vars

\* C11 witness: in a directory without a database the install was declined,
\* and there is still no database.
C11_Witness ==
    /\ out = <<"WARNING: Extensions can execute arbitrary Python code.",
               "Install extension from URL? [y/N]", "Installation cancelled.">>
    /\ exit_code = 0
    /\ ~db_created
    /\ extensions = <<>>

\* C12: serve binds the host and the port of the flags whenever a flag is
\* given, whatever its value, and those of the settings only for a flag
\* that is not given.
C12_ServeBindsFlags ==
    [][\A host \in HostFlags, port \in PortFlags, reload \in BOOLEAN, config \in Settings :
          serve(host, port, reload, config) =>
              /\ bound'[1].host = (IF host # None THEN host[1] ELSE config.server_host)
              /\ bound'[1].port = (IF port # None THEN port[1] ELSE config.server_port)]_vars

\* One run of init, as the files and the directory see it.
InitKeepsFiles ==
    /\ \A p \in {"tinybase.toml", "functions.py"} :
          /\ files[p].exists => files'[p] = files[p]
          /\ files'[p].exists
    /\ ~files["tinybase.toml"].exists =>
          files'["tinybase.toml"].text = create_default_toml
    /\ ~files["functions.py"].exists =>
          files'["functions.py"].text = create_example_function
    /\ functions_dir'
    /\ (LineAt(out', "Created functions/ directory") # 0) <=> ~functions_dir
    /\ (LineAt(out', "Created tinybase.toml") # 0)
          <=> ~files["tinybase.toml"].exists
    /\ (LineAt(out', "Created functions.py with example functions") # 0)
          <=> ~files["functions.py"].exists

\* C13: init writes tinybase.toml and functions.py only where the file is
\* absent and leaves an existing one as it is, and makes functions/ only if
\* it is missing; so once a file is there, no later init changes it.  (Every
\* step of SpecInit is a run of init.)
C13_InitNeverOverwrites ==
    /\ [][InitKeepsFiles]_vars
    /\ [][db_created => files' = files]_vars

\* C13 witness: init has run at least twice (the second run updated the
\* admin it had created) in a directory where the user's own tinybase.toml
\* is still as it was and functions.py is the example init wrote.
C13_Witness ==
    /\ files["tinybase.toml"] = File(<<"[server] port = 9000 ">>)
    /\ files["functions.py"] = File(create_example_function)
    /\ LineAt(out, "functions.py already exists") # 0
    /\ LineAt(out, "Updated admin user: ") # 0

\* The credential init is to use by the claim: the flag when it is given,
\* else the environment variable.
Resolved(flag, env) == IF flag # None THEN flag ELSE env

\* C14: init uses for the admin email and for the admin password the flag
\* when it is given and else the environment variable; the admin is created
\* or updated when both are there and only then, and otherwise no User row
\* is made or changed; init succeeds either way.
C14_InitResolvesCredentials ==
    [][\A e \in InitEmailFlags, p \in InitPasswordFlags,
         ee \in InitEmailEnvs, ep \in InitPasswordEnvs, salt \in Salts :
          init(e, p, ee, ep, salt) =>
              LET email == Resolved(e, ee)
                  password == Resolved(p, ep)
              IN
              /\ exit_code' = 0
              /\ (Truthy(email) /\ Truthy(password)) =>
                    AdminUpserted(email[1], password[1])
              /\ (email = None \/ password = None) => users' = users
              /\ users' # users =>
                    /\ email # None /\ password # None
                    /\ AdminUpserted(email[1], password[1])]_vars

\* C15: "functions deploy" exits 1 for every --env, the default included,
\* and changes no file and nothing in the database.
C15_DeployAlwaysFails ==
    [][\A env \in DeployEnvs :
          functions_deploy(env) =>
              /\ exit_code' = 1
              /\ UNCHANGED <<files, functions_dir, db_created, users, extensions,
                             ext_dirs, created>>]_vars

\* C15 witness: deploy to the default environment has failed in a project
\* that has its files and an admin.
C15_Witness ==
    /\ exit_code = 1
    /\ Len(out) >= 2
    /\ out[1] = "Deploying functions to environment: "
    /\ out[2] = "production"
    /\ files["tinybase.toml"].exists
    /\ users # <<>>

\* C16: a run that has begun ends (it returns, or an error leaves it), given
\* that every hook call ends and the runner keeps being scheduled, also when
\* the hooks called register hooks or clear the registries.
C16_RunsTerminate ==
    \A r \in Runners :
        (pc[r] \in {"iter", "await"}) ~> (pc[r] \in {"returned", "raised"})


\* The hooks called in a run, against the list the run iterated.
RunMatchesList(r) == calls'[r] = heap'[iter[r].list]

\* How often hook h occurs in sequence s.
Times(s, h) == Cardinality({i \in 1 .. Len(s) : s[i] = h})

\* A step of a runner: its control point or its iterator moves.
RunnerMoves == pc' # pc \/ iter' # iter

RegistriesKept == RunnerMoves => UNCHANGED <<heap, startup_hooks, shutdown_hooks>>

RunReturnsAll ==
    \A r \in Runners :
        (pc[r] = "iter" /\ pc'[r] = "returned") =>
            /\ RunMatchesList(r)
            /\ fresh[r] => /\ calls'[r] = heap'[Registry(r)']
                           /\ \A h \in Hooks :
                                  Times(calls'[r], h) = Times(heap'[Registry(r)'], h)

\* C17: no step of a run changes a registry (neither the lists nor which list
\* a registry is), and a run that returns has called exactly the hooks of the
\* list it iterated, in the list's order: the registry as it is now when no
\* clear_hooks came since the run began, a function that is in it k times
\* called k times.  So a run after it, the registry untouched, calls the same.
C17_RunsKeepRegistries == [][RegistriesKept]_vars /\ [][RunReturnsAll]_vars

\* C17: a run has returned after it called a function that is registered
\* twice two times, and the registry still holds both registrations.
C17_Witness ==
    \E r \in Runners :
        /\ pc[r] = "returned"
        /\ fresh[r]
        /\ Len(calls[r]) >= 2
        /\ calls[r][1] = calls[r][2]
        /\ heap[Registry(r)] = calls[r]

\* The Extension table after a command that set is_enabled of the row of
\* name to flag: that row's flag is flag, its updated_at differs exactly when
\* the flag flipped, its other fields and every other row are as they were.
OnlyFlagSet(name, flag) ==
    LET i == FirstExtension(extensions, name) IN
    /\ Len(extensions') = Len(extensions)
    /\ \A j \in 1 .. Len(extensions) : j # i => extensions'[j] = extensions[j]
    /\ extensions'[i].is_enabled = flag
    /\ extensions'[i].name = extensions[i].name
    /\ extensions'[i].version = extensions[i].version
    /\ (extensions'[i].updated_at # extensions[i].updated_at)
          <=> (extensions[i].is_enabled # flag)
    /\ UNCHANGED <<ext_dirs, users, files>>

EnableDisableFrame ==
    \A name \in ExtArgs :
        ~NoRecord(name) =>
            /\ extensions_enable(name) => OnlyFlagSet(name, TRUE)
            /\ extensions_disable(name) => OnlyFlagSet(name, FALSE)

\* What enable / disable print when they end with exit code 0.
SaysEnabled(name) ==
    \/ out = <<"Extension '">> \o name \o <<"' is already enabled.">>
    \/ out = <<"Enabled extension: ">> \o name \o <<
                "Note: Restart the server to load the extension.">>

SaysDisabled(name) ==
    \/ out = <<"Extension '">> \o name \o <<"' is already disabled.">>
    \/ out = <<"Disabled extension: ">> \o name \o <<
                "Note: Restart the server to fully unload the extension.">>

\* C18: enable / disable of a name that has a row sets that row's is_enabled
\* to the commanded value, changes its updated_at exactly when the flag
\* flipped, and changes no other field, no other row, and not the number of
\* rows; so when the last command was an enable (a disable) of a name that
\* succeeded, the row of that name is enabled (disabled).
C18_EnableDisableFrame ==
    /\ [][EnableDisableFrame]_vars
    /\ [](\A name \in ExtNames :
             /\ SaysEnabled(name) => Enabled(name, TRUE)
             /\ SaysDisabled(name) => Enabled(name, FALSE))

\* C18: disable has flipped the row of alpha, stamping it with the time of
\* the command, while the row of beta is still enabled.
C18_Witness ==
    /\ out = <<"Disabled extension: ", "alpha",
               "Note: Restart the server to fully unload the extension.">>
    /\ \E i, j \in 1 .. Len(extensions) :
          /\ extensions[i].name = <<"alpha">>
          /\ ~extensions[i].is_enabled
          /\ extensions[i].updated_at = now
          /\ extensions[j].name = <<"beta">>
          /\ extensions[j].is_enabled
          /\ extensions[j].updated_at < now
=============================================================================
